---- MODULE Spec2Model ----
(***************************************************************************)
(* State-machine model of the smart_controller integration: the two        *)
(* controller runtimes (BaseController, SmartController) and the automatons *)
(* built on them, together with the part of the host platform they talk to *)
(* (entity state machine, service calls, point-in-time timers, jobs).      *)
(*                                                                         *)
(* One controller instance is modelled per behaviour; Init chooses its     *)
(* type and configuration.  A step is one uninterrupted run of code on the *)
(* event loop: a handler runs from its entry to the first await on a       *)
(* service call, where it is parked in `tasks` until it is resumed.        *)
(***************************************************************************)
EXTENDS Integers, Sequences, FiniteSets, TLC

VARIABLES
    kind,           \* controller class created by _create_controller
    cfg,            \* config_entry.data | config_entry.options (self.data)
    hass,           \* hass.states: entity id -> state value
    state,          \* self._state
    cache,          \* cached readings (_temp, _humidity, _required_states, ...)
    timer_unsub,    \* self._timer_unsub: handle of the timer or None
    sched,          \* handles of the timers the platform has scheduled
    jobs,           \* expiry jobs handed to hass.add_job and not yet run
    calls,          \* service calls issued and not yet executed by the platform
    tasks,          \* handlers suspended on a service call (what they do next)
    setup_pc,       \* position of async_setup in tracked_entity_ids
    started,        \* SmartController._started
    subscribed,     \* async_track_state_change_event is registered
    unloaded,       \* the controller's teardown has run
    peer,           \* a second controller of the same base class, if any
    queued_events,  \* SmartController._queued_events (index 1 is list index 0)
    fired,          \* events passed to fire_event so far, in call order
    dispatched,     \* events passed to on_event so far, in call order
    draining,       \* the _fire_events call in progress ("none": no call)
    setup_drains,   \* _fire_events calls begun before _started was set
    map_in,         \* arguments of the latest extrapolate_value call
    map_out,        \* its result
    obs             \* what the latest step did (observation only)

vars == <<kind, cfg, hass, state, cache, timer_unsub, sched, jobs, calls,
          tasks, setup_pc, started, subscribed, unloaded, peer, obs,
          queued_events, fired, dispatched, draining, setup_drains, map_in, map_out>>

\* the event queue, which no controller of the package puts anything in
queue_vars == <<queued_events, fired, dispatched, draining, setup_drains>>
\* a call of the range mapping on its own
map_vars == <<map_in, map_out>>

\* what the controller's own handlers leave alone
aside == <<unloaded, peer>>

None == "None"

\* Numeric readings are integers; these two stand for a number that is absent
\* (None) and for the state of a numeric sensor that is unavailable.
NoNumber == -1
\* _timer_unsub is None: no handle (handles are 1, 2, ...)
NoTimer == 0
UnavailableNumber == -2
\* The state of a numeric sensor that is not a number (util.convert gives
\* None for it, so state_with_unit caches the tuple (None, unit)).
MalformedNumber == -3
IsNumeric(e) ==
    e \in {"temp", "humidity", "ref_temp", "ref_humidity", "illuminance", "pct"}

\* ------------------------------------------------------------------ bounds
MaxTasks == 1       \* handlers suspended at the same time
MaxCalls == 1       \* service calls in flight
MaxJobs == 1        \* timer expiry jobs waiting to run
MaxHandles == 2     \* timer handles alive at the same time
MaxFired == 4       \* fire_event calls in a behaviour of the event queue
NumTracked == 2     \* tracked entities of the controller using the event queue

\* --------------------------------------------------------------- constants
STATE_ON == "on"
STATE_OFF == "off"
STATE_UNKNOWN == "unknown"
STATE_UNAVAILABLE == "unavailable"
IGNORE_STATES == {STATE_UNKNOWN, STATE_UNAVAILABLE}
ON_OFF == {STATE_ON, STATE_OFF}
\* Variant of Ignored that knows 'unknown' only (sensitivity of C11 to the
\* 'unavailable' case).
Ignored_unknown_only(e, v) == ~IsNumeric(e) /\ v = STATE_UNKNOWN

Ignored(e, v) == IF IsNumeric(e) THEN v = UnavailableNumber ELSE v \in IGNORE_STATES

IsSmart == kind \in {"light", "occupancy"}

\* --------------------------------------------------------------- inputs
\* Readings the exhaust fan's sensors can report (degrees Celsius, percent).
\* Of the four sensors, the humidity sensor is the one that can also be
\* unavailable.
TempValues == {20}
HumidityValues == {40, 45, 60}
RefTempValues == {20}
RefHumidityValues == {40}

\* absolute_humidity over the readings above, in 1/100 g/m3, rounded:
\* r_h * 6.112 * 2.1674 * e^(17.67 t / (t + 243.5)) / (t + 273.15)
absolute_humidity(t, r_h) ==
    CASE t = 20 /\ r_h = 40 -> 691
      [] t = 20 /\ r_h = 45 -> 778
      [] t = 20 /\ r_h = 60 -> 1037

\* ------------------------------------------------------- observation record
\*   via    how on_state_change was entered in this step: "none" (it was not),
\*          "setup", "ext" (a notification of a change made by something else),
\*          "self" (the notification of a change made by the controller's own
\*          service call)
\*   same   the notification handed to on_state_change had old = new
\*   ev     the event _process_event handled ("none": it was not entered)
\*   from   _state when _process_event was entered
\*   cmd    the service the step called ("none": no call)
\*   canceled  set_timer canceled a timer that was still scheduled
\*   overlap  _process_event was entered while another handler was suspended
\*   stale  the expiry job run belongs to a timer set before the latest set_timer
\*   assert_failed  an assert statement of the handler failed
\*   raised  an exception (TypeError, ValueError) ended the handler
Quiet ==
    [via |-> "none", same |-> FALSE, ev |-> "none", from |-> "none",
     cmd |-> "none", canceled |-> FALSE, overlap |-> FALSE, stale |-> FALSE,
     assert_failed |-> FALSE, raised |-> FALSE, changes |-> 0, notified |-> 0]

\* The controller and platform fields a handler reads and writes, as a record.
Cur ==
    [hass |-> hass, state |-> state, cache |-> cache,
     timer_unsub |-> timer_unsub, sched |-> sched, jobs |-> jobs,
     calls |-> calls, tasks |-> tasks, unloaded |-> unloaded, obs |-> Quiet]

WithinBounds(c) ==
    /\ Len(c.tasks) <= MaxTasks
    /\ Len(c.calls) <= MaxCalls
    /\ Len(c.jobs) <= MaxJobs
    /\ Cardinality(c.sched) <= MaxHandles

Commit(c) ==
    /\ WithinBounds(c)
    /\ hass' = c.hass
    /\ state' = c.state
    /\ cache' = c.cache
    /\ timer_unsub' = c.timer_unsub
    /\ sched' = c.sched
    /\ jobs' = c.jobs
    /\ calls' = c.calls
    /\ tasks' = c.tasks
    /\ obs' = c.obs
    /\ UNCHANGED aside
    /\ UNCHANGED queue_vars
    /\ UNCHANGED map_vars

\* ------------------------------------------------------------------ runtime
\* Callbacks in _listeners: the binary sensor entity, which exists for the
\* occupancy controller only, registers one when it is added.
Listeners == IF kind = "occupancy" THEN 1 ELSE 0

\* obs.changes counts the set_state calls whose argument differs from the
\* state, obs.notified the listener callbacks invoked.
CountChange(c, new_state) ==
    [c EXCEPT !.obs.changes = @ + (IF c.state # new_state THEN 1 ELSE 0)]

\* Variant of set_state without the comparison with the current state
\* (sensitivity of C16 to `if self._state == new_state: return`).
set_state_unconditional(c, new_state) ==
    [CountChange(c, new_state) EXCEPT !.state = new_state,
                                      !.obs.notified = @ + Listeners]

\* SmartController.set_state returns when the state is the same, otherwise
\* assigns and calls async_update_listeners; BaseController.set_state assigns
\* and has no listeners.
set_state(c, new_state) ==
    IF IsSmart
    THEN IF c.state = new_state
         THEN c
         ELSE [CountChange(c, new_state) EXCEPT !.state = new_state,
                                                !.obs.notified = @ + Listeners]
    ELSE [CountChange(c, new_state) EXCEPT !.state = new_state]

\* An exception leaves the handler where it is raised.
Raise(c) == [c EXCEPT !.obs.raised = TRUE]

FreeHandle(c) ==
    CHOOSE h \in 1..(MaxHandles + 1) :
        /\ h \notin c.sched
        /\ \A k \in 1..(MaxHandles + 1) : (k < h) => (k \in c.sched)

\* Variant of set_timer that cancels and never schedules (sensitivity of C21
\* to the timer started on entry).
set_timer_cancel_only(c, has_period) ==
    IF c.timer_unsub # NoTimer
    THEN [c EXCEPT !.sched = @ \ {c.timer_unsub}, !.timer_unsub = NoTimer]
    ELSE c

\* Variant of set_timer that schedules without canceling the timer
\* _timer_unsub names (sensitivity of C4 to the cancellation).
set_timer_without_cancel(c, has_period) ==
    IF has_period
    THEN [c EXCEPT !.timer_unsub = FreeHandle(c), !.sched = @ \cup {FreeHandle(c)}]
    ELSE [c EXCEPT !.timer_unsub = NoTimer]

\* set_timer: cancel the timer _timer_unsub names, then schedule a new one
\* when a period is given (has_period).  _unsubscribers.remove raises
\* ValueError when the teardown has already emptied the list.  Expiry jobs already handed to the
\* event loop are not touched; they are marked stale for observation.
set_timer(c, has_period) ==
    IF c.unloaded /\ c.timer_unsub # NoTimer THEN Raise(c) ELSE
    LET marked == [c EXCEPT !.jobs = [i \in 1..Len(c.jobs) |-> "stale"]]
        canceled ==
            IF marked.timer_unsub # NoTimer
            THEN [marked EXCEPT !.sched = @ \ {marked.timer_unsub},
                                !.timer_unsub = NoTimer,
                                !.obs.canceled = (marked.timer_unsub \in marked.sched)]
            ELSE marked
    IN IF has_period
       THEN [canceled EXCEPT !.timer_unsub = FreeHandle(canceled),
                             !.sched = @ \cup {FreeHandle(canceled)}]
       ELSE canceled

\* async_service_call: the call carries MyContext.
async_service_call(c, service) ==
    [c EXCEPT !.calls = Append(@, [service |-> service, arg |-> 0, ctx |-> "mine"]),
              !.obs.cmd = service]

\* A handler that awaited a service call is parked with the state it will
\* assign when it resumes; otherwise it assigns it at once.
Finish(c, target, awaited) ==
    IF target = "none" THEN c
    ELSE IF awaited THEN [c EXCEPT !.tasks = Append(@, target)]
    ELSE set_state(c, target)

\* Variant of the INIT cases that takes the state opposite to the report
\* (sensitivity of C39 to the state INIT is left to).
leave_init_inverted(c, reported) ==
    set_state(c, IF reported = "on" THEN "off" ELSE "on")

\* (INIT, ON) and (INIT, OFF): set_state(MyState.ON) / set_state(MyState.OFF),
\* the state the controlled entity reports.
leave_init(c, reported) == set_state(c, reported)

Enter(c, ev) ==
    [c EXCEPT !.obs.ev = ev, !.obs.from = c.state,
              !.obs.overlap = (c.tasks # << >>)]

\* state_with_unit: util.convert(state.state, float) is the number, or None
\* when the state is not a number.
state_with_unit(v) == IF v >= 0 THEN v ELSE MalformedNumber

\* ------------------------------------------------------------- exhaust fan
\* Variant of the mode decision with one threshold for both directions
\* (sensitivity of C25 to the falling threshold).
Exhaust_new_mode_single_threshold(curr_mode, difference) ==
    IF curr_mode = STATE_OFF /\ difference > cfg.rising_threshold
    THEN STATE_ON
    ELSE IF curr_mode = STATE_ON /\ difference < cfg.rising_threshold
    THEN STATE_OFF
    ELSE curr_mode

\* _set_fan_mode: new_mode from the fan's state and the humidity difference
Exhaust_new_mode(curr_mode, difference) ==
    IF curr_mode = STATE_OFF /\ difference > cfg.rising_threshold
    THEN STATE_ON
    ELSE IF curr_mode = STATE_ON /\ difference < cfg.falling_threshold
    THEN STATE_OFF
    ELSE curr_mode

Exhaust_set_fan_mode(c) ==
    IF \E k \in {"temp", "humidity", "ref_temp", "ref_humidity"} : c.cache[k] = NoNumber
    THEN [c |-> c, fan_on |-> FALSE, awaited |-> FALSE, raised |-> FALSE]
    ELSE IF \E k \in {"temp", "humidity", "ref_temp", "ref_humidity"} :
                c.cache[k] = MalformedNumber
    THEN [c |-> Raise(c), fan_on |-> FALSE, awaited |-> FALSE, raised |-> TRUE]
    ELSE LET abs_hum == absolute_humidity(c.cache["temp"], c.cache["humidity"])
             ref_abs_hum == absolute_humidity(c.cache["ref_temp"], c.cache["ref_humidity"])
             difference == abs_hum - ref_abs_hum
             curr_mode == c.hass["ctl"]
             new_mode == Exhaust_new_mode(curr_mode, difference)
         IN IF new_mode # curr_mode
            THEN [c |-> async_service_call(
                            c, IF new_mode = STATE_ON THEN "turn_on" ELSE "turn_off"),
                  fan_on |-> new_mode = STATE_ON, awaited |-> TRUE, raised |-> FALSE]
            ELSE [c |-> c, fan_on |-> new_mode = STATE_ON, awaited |-> FALSE,
                  raised |-> FALSE]

\* Variant of the default case that treats the event as an update in the
\* automatic states (sensitivity of C17 to the absence of UPDATE_FAN_MODE
\* cases for the manual states).
Exhaust_ignored_recomputes(c) ==
    LET m == Exhaust_set_fan_mode(c)
    IN IF m.raised THEN m.c
       ELSE Finish(m.c, IF m.fan_on THEN "on" ELSE "off", m.awaited)

\* `case _`: the event is logged as ignored.
Exhaust_ignored(c) == c

Exhaust_process_event(c0, ev) ==
    LET c == Enter(c0, ev)
        st == c.state
        manual == cfg.manual_control
        m == Exhaust_set_fan_mode(c)
        mt == Exhaust_set_fan_mode(set_timer(c, FALSE))
        after(r, target) == IF r.raised THEN r.c ELSE Finish(r.c, target, r.awaited)
        resolve(r) == after(r, IF r.fan_on THEN "on" ELSE "off")
    IN CASE st = "init" /\ ev = "off" -> leave_init(c, "off")
         [] st = "init" /\ ev = "on" -> leave_init(c, "on")
         [] st = "off" /\ ev = "on" ->
                set_timer(set_state(c, IF manual THEN "on_manual" ELSE "on"), manual)
         [] st = "off" /\ ev = "update_fan_mode" ->
                after(m, IF m.fan_on THEN "on" ELSE "none")
         [] st = "on" /\ ev = "off" ->
                set_timer(set_state(c, IF manual THEN "off_manual" ELSE "off"), manual)
         [] st = "on" /\ ev = "update_fan_mode" ->
                after(m, IF m.fan_on THEN "none" ELSE "off")
         [] st = "off_manual" /\ ev = "on" -> resolve(mt)
         [] st = "off_manual" /\ ev = "timer" -> resolve(m)
         [] st = "on_manual" /\ ev = "off" -> resolve(mt)
         [] st = "on_manual" /\ ev = "timer" -> resolve(m)
         [] OTHER -> Exhaust_ignored(c)

Exhaust_on_state_change(c, e, v) ==
    CASE e = "ctl" /\ v \in ON_OFF ->
             Exhaust_process_event(c, IF v = STATE_ON THEN "on" ELSE "off")
      [] e \in {"temp", "humidity", "ref_temp", "ref_humidity"} ->
             Exhaust_process_event([c EXCEPT !.cache[e] = state_with_unit(v)],
                                   "update_fan_mode")
      [] OTHER -> c

\* ------------------------------------------------------------------- light
Light_have_required(c) == c.cache["required_states"] = cfg.required

Light_set_light_mode(c, mode) ==
    async_service_call(c, IF mode = STATE_ON THEN "turn_on" ELSE "turn_off")

\* Variant of the TIMER cases that sets OFF without switching the light off
\* (sensitivity of C29 to the turn_off call).
Light_timer_off_silent(c) ==
    IF c.cache["occupancy_mode"]
    THEN [c EXCEPT !.obs.assert_failed = TRUE]
    ELSE set_state(c, "off")

\* `assert not occupancy_mode()`: a failed assertion ends the handler there.
Light_timer_off(c) ==
    IF c.cache["occupancy_mode"]
    THEN [c EXCEPT !.obs.assert_failed = TRUE]
    ELSE Light_set_light_mode(set_state(c, "off"), STATE_OFF)

\* Variant of (OFF, REFRESH) that turns the light on whatever the required
\* entities are (sensitivity of C9 to have_required).
Light_off_refresh_unconditional(c) ==
    IF c.cache["low_light"] = "True"
    THEN Light_set_light_mode(set_state(c, "on"), STATE_ON)
    ELSE c

\* (OFF, REFRESH)
Light_off_refresh(c) ==
    IF c.cache["low_light"] = "True" /\ Light_have_required(c)
    THEN Light_set_light_mode(set_state(c, "on"), STATE_ON)
    ELSE c

\* Variant of (ON, REFRESH) that leaves the timer alone (sensitivity of C8 to
\* set_timer(None)).
Light_on_refresh_keeps_timer(c) ==
    IF ~Light_have_required(c)
    THEN Light_set_light_mode(set_state(c, "off"), STATE_OFF)
    ELSE c

\* (ON, REFRESH)
Light_on_refresh(c) ==
    IF ~Light_have_required(c)
    THEN Light_set_light_mode(set_timer(set_state(c, "off"), FALSE), STATE_OFF)
    ELSE c

Light_process_event(c0, ev) ==
    LET c == Enter(c0, ev)
        st == c.state
        have_required == Light_have_required(c)
    IN CASE st = "init" /\ ev = "off" -> leave_init(c, "off")
         [] st = "init" /\ ev = "on" -> set_timer(leave_init(c, "on"), cfg.auto_off)
         [] st = "off" /\ ev = "on" ->
                set_timer(set_state(c, "on_manual"), cfg.auto_off)
         [] st = "off" /\ ev = "refresh" -> Light_off_refresh(c)
         [] st = "on" /\ ev = "off" -> set_timer(set_state(c, "off_manual"), FALSE)
         [] st = "on" /\ ev = "refresh" -> Light_on_refresh(c)
         [] st = "on" /\ ev = "timer" -> Light_timer_off(c)
         [] st = "off_manual" /\ ev = "on" ->
                set_state(c, IF have_required THEN "on" ELSE "on_manual")
         [] st = "off_manual" /\ ev = "refresh" ->
                IF ~have_required THEN set_state(c, "off") ELSE c
         [] st = "on_manual" /\ ev = "off" ->
                set_state(c, IF have_required THEN "off_manual" ELSE "off")
         [] st = "on_manual" /\ ev = "refresh" ->
                IF have_required THEN set_state(c, "on") ELSE c
         [] st = "on_manual" /\ ev = "timer" -> Light_timer_off(c)
         [] OTHER -> c

\* `assert self.illuminance_cutoff` precedes the comparison with the cutoff.
Light_on_state_change(c, e, v) ==
    CASE e = "ctl" ->
             IF v \in ON_OFF
             THEN Light_process_event(c, IF v = STATE_ON THEN "on" ELSE "off")
             ELSE c
      [] e = "illuminance" ->
             IF cfg.illuminance_cutoff \in {NoNumber, 0}
             THEN [c EXCEPT !.obs.assert_failed = TRUE]
             ELSE IF v = MalformedNumber
             THEN Raise(c)
             ELSE Light_process_event(
                      [c EXCEPT !.cache["low_light"] =
                          IF v <= cfg.illuminance_cutoff THEN "True" ELSE "False"],
                      "refresh")
      [] e \in DOMAIN cfg.required ->
             IF v \in ON_OFF
             THEN Light_process_event(
                      [c EXCEPT !.cache["required_states"][e] = v], "refresh")
             ELSE c
      [] OTHER -> c

\* --------------------------------------------------------------- occupancy
\* Variant of have_other that never sees an auxiliary entity on (sensitivity
\* of C31 to the fallback to OTHER).
Occupancy_have_other_never(c) == FALSE

Occupancy_have_other(c) ==
    \E k \in DOMAIN c.cache["other_states"] : c.cache["other_states"][k] = STATE_ON

Occupancy_doors_closed(c) ==
    /\ DOMAIN c.cache["door_states"] # {}
    /\ \A k \in DOMAIN c.cache["door_states"] : c.cache["door_states"][k] = STATE_ON

\* Variant of have_required that takes the required entities as matching
\* (sensitivity of C32 to the guard).
Occupancy_have_required_always(c) == TRUE

Occupancy_have_required(c) == cfg.required = c.cache["required_states"]

\* set_timer, then set_state unless set_timer raised
then_set_state(t, new_state) == IF t.obs.raised THEN t ELSE set_state(t, new_state)

\* Variant of enter_unoccupied_state that stays where it is (sensitivity of
\* C35 to leaving OTHER).
enter_unoccupied_state_stays(c) == c

enter_unoccupied_state(c) == then_set_state(set_timer(c, FALSE), "unoccupied")

\* Variant of enter_motion_state that leaves the timer alone (sensitivity of
\* C34 to set_timer(self._motion_off_period)).
enter_motion_state_without_timer(c) == set_state(c, "motion")

enter_motion_state(c) == then_set_state(set_timer(c, cfg.motion_off), "motion")
enter_wasp_in_box_state(c) == then_set_state(set_timer(c, FALSE), "wasp_in_box")
enter_other_state(c) == then_set_state(set_timer(c, FALSE), "other")

Occupancy_on_motion(c) ==
    IF Occupancy_doors_closed(c) THEN enter_wasp_in_box_state(c)
    ELSE enter_motion_state(c)

Occupancy_process_event(c0, ev) ==
    LET c == Enter(c0, ev)
        st == c.state
        have_required == Occupancy_have_required(c)
        have_other == Occupancy_have_other(c)
    IN CASE st = "unoccupied" /\ ev = "motion" /\ have_required -> Occupancy_on_motion(c)
         [] st = "unoccupied" /\ ev = "update" /\ have_required ->
                IF have_other THEN enter_other_state(c) ELSE c
         [] st = "motion" /\ ev = "motion" -> Occupancy_on_motion(c)
         [] st = "motion" /\ ev = "timer" ->
                IF have_other THEN enter_other_state(c) ELSE enter_unoccupied_state(c)
         [] st = "motion" /\ ev = "update" /\ ~have_required -> enter_unoccupied_state(c)
         [] st = "wasp_in_box" /\ ev = "door_open" -> enter_motion_state(c)
         [] st = "wasp_in_box" /\ ev = "update" /\ ~have_required ->
                enter_unoccupied_state(c)
         [] st = "other" /\ ev = "motion" -> Occupancy_on_motion(c)
         [] st = "other" /\ ev = "update" ->
                IF ~(have_other /\ have_required) THEN enter_unoccupied_state(c) ELSE c
         [] OTHER -> c

Occupancy_on_state_change(c, e, v) ==
    CASE e \in cfg.motion_sensors /\ v = STATE_ON -> Occupancy_process_event(c, "motion")
      [] e \in DOMAIN c.cache["other_states"] /\ ~(e \in cfg.motion_sensors /\ v = STATE_ON) ->
             IF v \in ON_OFF
             THEN Occupancy_process_event(
                      [c EXCEPT !.cache["other_states"][e] = v], "update")
             ELSE c
      [] e \in DOMAIN c.cache["door_states"] ->
             IF v \in ON_OFF
             THEN LET c1 == [c EXCEPT !.cache["door_states"][e] = v]
                  IN IF \E k \in DOMAIN c1.cache["door_states"] :
                            c1.cache["door_states"][k] = STATE_ON
                     THEN Occupancy_process_event(c1, "door_open")
                     ELSE c1
             ELSE c
      [] e \in DOMAIN cfg.required ->
             IF v \in ON_OFF
             THEN Occupancy_process_event(
                      [c EXCEPT !.cache["required_states"][e] = v], "update")
             ELSE c
      [] OTHER -> c

\* ------------------------------------------------------------- ceiling fan
\* Readings of the ceiling fan's sensors (degrees Fahrenheit, percent; the
\* temperature sensor can also be unavailable) and the fan's percentage_step
\* attribute.
CeilingTempValues == {70, 80}
CeilingHumidityValues == {50}
PercentageStep == 25

\* summer_simmer_index in 1/1000000 degree Fahrenheit:
\* 1.98 * (t_f - (0.55 - 0.0055 * r_h) * (t_f - 58)) - 56.83
summer_simmer_index(t_f, r_h) ==
    198 * (10000 * t_f - (5500 - 55 * r_h) * (t_f - 58)) - 56830000

FloorDiv(a, b) == a \div b

\* homeassistant.util.percentage: the range counts its states, low..high.
states_in_range(low, high) == high - low + 1

\* value in 1/1000000; int(((value - offset) * 100) // states_in_range)
ranged_value_to_percentage(low, high, value_u) ==
    FloorDiv((value_u - (low - 1) * 1000000) * 100,
             states_in_range(low, high) * 1000000)

\* Variant of percentage_to_ranged_value that counts the percentage from the
\* top of the range (sensitivity of C20 to the direction of the mapping).
percentage_to_ranged_value_from_top(low, high, percentage) ==
    states_in_range(low, high) * (100 - percentage) + 100 * (low - 1)

\* result in 1/100: states_in_range * percentage / 100 + offset
percentage_to_ranged_value(low, high, percentage) ==
    states_in_range(low, high) * percentage + 100 * (low - 1)

\* extrapolate_value(value, source_range, target_range, low_default,
\* high_default), with the value in 1/1000000 and the result in 1/100.
extrapolate_value(value_u, s_low, s_high, t_low, t_high, low_default, high_default) ==
    IF value_u < s_low * 1000000
    THEN (IF low_default = NoNumber THEN 100 * t_low ELSE 100 * low_default)
    ELSE IF value_u > s_high * 1000000
    THEN (IF high_default = NoNumber THEN 100 * t_high ELSE 100 * high_default)
    ELSE percentage_to_ranged_value(
             t_low, t_high, ranged_value_to_percentage(s_low, s_high, value_u))

\* round(num / den, 0) for num >= 0: to the nearest integer, ties to even.
RoundHalfEven(num, den) ==
    LET f == num \div den
        r2 == 2 * (num % den)
    IN IF r2 < den THEN f
       ELSE IF r2 > den THEN f + 1
       ELSE IF f % 2 = 0 THEN f ELSE f + 1

\* Variant of the new speed without the rounding to the fan's step
\* (sensitivity of C23 to the quantization).
Ceiling_new_speed_unquantized(c) ==
    LET ssi == summer_simmer_index(c.cache["temp"], c.cache["humidity"])
        ssi_speed == extrapolate_value(ssi, cfg.ssi_min, cfg.ssi_max,
                                       cfg.speed_min, cfg.speed_max, 0, NoNumber)
    IN IF c.cache["prereq_state"] # STATE_OFF THEN ssi_speed \div 100 ELSE 0

Ceiling_new_speed(c) ==
    LET ssi == summer_simmer_index(c.cache["temp"], c.cache["humidity"])
        ssi_speed == extrapolate_value(ssi, cfg.ssi_min, cfg.ssi_max,
                                       cfg.speed_min, cfg.speed_max, 0, NoNumber)
    IN IF c.cache["prereq_state"] # STATE_OFF
       THEN RoundHalfEven(ssi_speed, 100 * PercentageStep) * PercentageStep
       ELSE 0

\* The set_percentage call goes through hass.services.async_call directly,
\* with no context argument.
Ceiling_set_fan_speed(c) ==
    IF c.cache["temp"] = NoNumber \/ c.cache["humidity"] = NoNumber
    THEN [c |-> c, fan_on |-> FALSE, awaited |-> FALSE, raised |-> FALSE]
    ELSE IF c.cache["temp"] = MalformedNumber \/ c.cache["humidity"] = MalformedNumber
    THEN [c |-> Raise(c), fan_on |-> FALSE, awaited |-> FALSE, raised |-> TRUE]
    ELSE LET curr_speed == IF c.hass["ctl"] = STATE_ON THEN c.hass["pct"] ELSE 0
             new_speed == Ceiling_new_speed(c)
         IN IF new_speed # curr_speed
            THEN [c |-> [c EXCEPT !.calls = Append(@, [service |-> "set_percentage",
                                                       arg |-> new_speed,
                                                       ctx |-> "default"]),
                                  !.obs.cmd = "set_percentage"],
                  fan_on |-> new_speed > 0, awaited |-> TRUE, raised |-> FALSE]
            ELSE [c |-> c, fan_on |-> new_speed > 0, awaited |-> FALSE,
                  raised |-> FALSE]

Ceiling_process_event(c0, ev) ==
    LET c == Enter(c0, ev)
        st == c.state
        manual == cfg.manual_control
        m == Ceiling_set_fan_speed(c)
        mt == Ceiling_set_fan_speed(set_timer(c, FALSE))
        after(r, target) == IF r.raised THEN r.c ELSE Finish(r.c, target, r.awaited)
        resolve(r) == after(r, IF r.fan_on THEN "on" ELSE "off")
    IN CASE st = "init" /\ ev = "off" -> leave_init(c, "off")
         [] st = "init" /\ ev = "on" -> leave_init(c, "on")
         [] st = "off" /\ ev = "on" ->
                set_timer(set_state(c, IF manual THEN "on_manual" ELSE "on"), manual)
         [] st = "off" /\ ev = "update_fan_speed" ->
                after(m, IF m.fan_on THEN "on" ELSE "none")
         [] st = "on" /\ ev = "off" ->
                set_timer(set_state(c, IF manual THEN "off_manual" ELSE "off"), manual)
         [] st = "on" /\ ev = "update_fan_speed" ->
                after(m, IF m.fan_on THEN "none" ELSE "off")
         [] st = "off_manual" /\ ev = "on" -> resolve(mt)
         [] st = "off_manual" /\ ev = "timer" -> resolve(m)
         [] st = "on_manual" /\ ev = "off" -> resolve(mt)
         [] st = "on_manual" /\ ev = "timer" -> resolve(m)
         [] OTHER -> c

Ceiling_on_state_change(c, e, v) ==
    CASE e = "ctl" /\ v \in ON_OFF ->
             Ceiling_process_event(c, IF v = STATE_ON THEN "on" ELSE "off")
      [] e = "temp" -> [c EXCEPT !.cache["temp"] = state_with_unit(v)]
      [] e = "humidity" -> [c EXCEPT !.cache["humidity"] = state_with_unit(v)]
      [] e = "prereq" ->
             Ceiling_process_event([c EXCEPT !.cache["prereq_state"] = v],
                                   "update_fan_speed")
      [] OTHER -> c

\* ------------------------------------------------------------ configuration
IlluminanceValues == {10, 90}
IlluminanceCutoff == 50
\* The cutoff field accepts 0 and up and is given together with the sensor;
\* NoNumber: neither is configured.
IlluminanceCutoffs == {NoNumber, 0, IlluminanceCutoff}

No(required_value) == [k \in {} |-> required_value]
RequireOn(e) == [k \in {e} |-> STATE_ON]

ExhaustConfigs ==
    {[manual_control |-> m, falling_threshold |-> t[1], rising_threshold |-> t[2]] :
        m \in BOOLEAN, t \in {<<50, 200>>, <<20, 100>>}}

CeilingConfigs ==
    {[manual_control |-> m, prerequisite |-> p, ssi_min |-> 81, ssi_max |-> 91,
      speed_min |-> 25, speed_max |-> 100] : m \in BOOLEAN, p \in BOOLEAN}

LightConfigs ==
    {[auto_off |-> a, illuminance |-> (k # NoNumber),
      illuminance_cutoff |-> k,
      required |-> r, occupancy_class |-> o] :
        a \in BOOLEAN, k \in IlluminanceCutoffs,
        r \in {No(STATE_ON), RequireOn("r1")}, o \in BOOLEAN}

OccupancyConfigs ==
    {[motion_sensors |-> {"m1"}, other |-> {"o1"}, doors |-> d, required |-> r,
      motion_off |-> p] :
        d \in {{"d1"}, {"d1", "d2"}}, r \in {No(STATE_ON), RequireOn("r1")},
        p \in BOOLEAN}

SetToSeq(S) ==
    LET order == <<"d1", "d2", "r1">>
    IN SelectSeq(order, LAMBDA x : x \in S)

\* tracked_entity_ids, in the order the constructors list them
Tracked ==
    CASE kind = "exhaust" -> <<"ctl", "temp", "humidity", "ref_temp", "ref_humidity">>
      [] kind = "ceiling" ->
             <<"ctl", "temp", "humidity">>
             \o (IF cfg.prerequisite THEN <<"prereq">> ELSE << >>)
      [] kind = "light" ->
             <<"ctl">> \o (IF cfg.illuminance THEN <<"illuminance">> ELSE << >>)
             \o SetToSeq(DOMAIN cfg.required)
      [] kind = "occupancy" ->
             <<"m1", "o1">> \o SetToSeq(cfg.doors) \o SetToSeq(DOMAIN cfg.required)

TrackedSet == {Tracked[i] : i \in 1..Len(Tracked)}

\* The values the platform can hold for an entity.
Values(e) ==
    CASE kind = "exhaust" /\ e = "temp" -> TempValues
      [] kind = "exhaust" /\ e = "humidity" ->
             HumidityValues \cup {UnavailableNumber, MalformedNumber}
      [] kind = "exhaust" /\ e = "ref_temp" -> RefTempValues
      [] kind = "exhaust" /\ e = "ref_humidity" -> RefHumidityValues
      [] kind = "ceiling" /\ e = "temp" -> CeilingTempValues \cup {UnavailableNumber, MalformedNumber}
      [] kind = "ceiling" /\ e = "humidity" -> CeilingHumidityValues
      [] e = "illuminance" -> IlluminanceValues \cup {UnavailableNumber, MalformedNumber}
      [] e = "pct" -> {0, 2 * PercentageStep, 4 * PercentageStep}
      [] e \in {"prereq", "m1", "o1", "d2"} -> {STATE_ON, STATE_OFF}
      [] OTHER -> {STATE_ON, STATE_OFF, STATE_UNAVAILABLE}

InitialCache ==
    CASE kind = "exhaust" ->
             [temp |-> NoNumber, humidity |-> NoNumber, ref_temp |-> NoNumber,
              ref_humidity |-> NoNumber]
      [] kind = "ceiling" -> [temp |-> NoNumber, humidity |-> NoNumber, prereq_state |-> None]
      [] kind = "light" ->
             [low_light |-> IF cfg.illuminance THEN None ELSE "True",
              required_states |-> [k \in DOMAIN cfg.required |-> None],
              occupancy_mode |-> FALSE]
      [] kind = "occupancy" ->
             [other_states |-> [k \in cfg.other |-> None],
              door_states |-> [k \in cfg.doors |-> None],
              required_states |-> [k \in DOMAIN cfg.required |-> None]]

\* every assignment of a platform value to the entities of seq
RECURSIVE Assignments(_)
Assignments(seq) ==
    IF seq = << >> THEN {No(0)}
    ELSE {[k \in DOMAIN r \cup {Head(seq)} |-> IF k = Head(seq) THEN v ELSE r[k]] :
             v \in Values(Head(seq)), r \in Assignments(Tail(seq))}

\* the percentage attribute is 0 unless the fan is on
HassOk(h) ==
    ("pct" \in DOMAIN h) => ((h["ctl"] = STATE_ON) <=> (h["pct"] > 0))

NoPeer == [present |-> FALSE, subscribed |-> FALSE, timer |-> FALSE]

\* the controller after its constructor, before async_setup
InitController ==
    /\ kind \in {"exhaust", "ceiling", "light", "occupancy"}
    /\ cfg \in (CASE kind = "exhaust" -> ExhaustConfigs
                  [] kind = "ceiling" -> CeilingConfigs
                  [] kind = "light" -> LightConfigs
                  [] kind = "occupancy" -> OccupancyConfigs)
    /\ hass \in {h \in Assignments(Tracked \o (IF kind = "ceiling" THEN <<"pct">>
                                                                     ELSE << >>)) :
                    HassOk(h)}
    /\ state = IF kind = "occupancy" THEN "unoccupied" ELSE "init"
    /\ cache = InitialCache
    /\ timer_unsub = NoTimer
    /\ sched = {}
    /\ jobs = << >>
    /\ calls = << >>
    /\ tasks = << >>
    /\ setup_pc = 1
    /\ started = FALSE
    /\ subscribed = FALSE
    /\ unloaded = FALSE
    /\ obs = Quiet
    /\ queued_events = << >>
    /\ fired = << >>
    /\ dispatched = << >>
    /\ draining = "none"
    /\ setup_drains = 0
    /\ map_in = << >>
    /\ map_out = << >>

\* -------------------------------------------------------- runtime dispatch
on_state_change(c, e, v) ==
    CASE kind = "exhaust" -> Exhaust_on_state_change(c, e, v)
      [] kind = "ceiling" -> Ceiling_on_state_change(c, e, v)
      [] kind = "light" -> Light_on_state_change(c, e, v)
      [] kind = "occupancy" -> Occupancy_on_state_change(c, e, v)

on_timer_expired(c) ==
    CASE kind = "exhaust" -> Exhaust_process_event(c, "timer")
      [] kind = "ceiling" -> Ceiling_process_event(c, "timer")
      [] kind = "light" -> Light_process_event(c, "timer")
      [] kind = "occupancy" -> Occupancy_process_event(c, "timer")

\* SmartController._on_state_change(old_state, new_state) drops a missing or
\* ignored new state and a new state equal to the old one;
\* BaseController._on_state_change(state) drops a missing or ignored state.
internal_on_state_change(c, e, has_old, old, new, origin) ==
    IF Ignored(e, new) THEN c
    ELSE IF IsSmart /\ has_old /\ old = new THEN c
    ELSE on_state_change([c EXCEPT !.obs.via = origin, !.obs.same = (has_old /\ old = new)],
                         e, new)

\* on_state_event: events whose context is a MyContext are ignored.
on_state_event(c, e, old, new, ctx, origin) ==
    IF ctx = "mine" THEN c ELSE internal_on_state_change(c, e, TRUE, old, new, origin)

\* The platform writes a state and fires the state_changed event to the
\* listener registered by async_setup, if any.
WriteState(c, e, new, ctx, origin) ==
    LET old == c.hass[e]
        written == [c EXCEPT !.hass[e] = new]
    IN IF subscribed THEN on_state_event(written, e, old, new, ctx, origin) ELSE written

SetupDone == setup_pc = Len(Tracked) + 2

\* ------------------------------------------------------------------ actions
\* async_setup, one tracked entity: hass.states.get and _on_state_change.
SetupEntity ==
    /\ setup_pc <= Len(Tracked)
    /\ tasks = << >>
    /\ LET e == Tracked[setup_pc]
       IN Commit(internal_on_state_change(Cur, e, FALSE, hass[e], hass[e], "setup"))
    /\ setup_pc' = setup_pc + 1
    /\ UNCHANGED <<kind, cfg, started, subscribed>>

\* async_setup after the loop: SmartController marks itself started and
\* subscribes, LightController then computes _occupancy_mode; BaseController
\* subscribes and the fan controllers process a first update event.
SetupFinish ==
    /\ setup_pc = Len(Tracked) + 1
    /\ tasks = << >>
    /\ LET c == Cur
       IN Commit(CASE kind = "exhaust" -> Exhaust_process_event(c, "update_fan_mode")
                   [] kind = "ceiling" -> Ceiling_process_event(c, "update_fan_speed")
                   [] kind = "light" ->
                          [c EXCEPT !.cache["occupancy_mode"] =
                              (cfg.occupancy_class /\ DOMAIN cfg.required # {})]
                   [] kind = "occupancy" -> c)
    /\ setup_pc' = setup_pc + 1
    /\ started' = IsSmart
    /\ subscribed' = TRUE
    /\ UNCHANGED <<kind, cfg>>

\* Something other than the controller changes an entity (or only its
\* attributes: v may be the value it already has).
StateChanged(e, v) ==
    /\ SetupDone
    /\ e \in TrackedSet
    /\ v \in Values(e)
    /\ \E p \in (IF kind = "ceiling" /\ e = "ctl"
                 THEN (IF v = STATE_ON THEN {2 * PercentageStep} ELSE {0})
                 ELSE {0}) :
          LET c0 == Cur
              c == IF kind = "ceiling" /\ e = "ctl"
                   THEN [c0 EXCEPT !.hass["pct"] = p] ELSE c0
          IN Commit(WriteState(c, e, v, "default", "ext"))
    /\ UNCHANGED <<kind, cfg, setup_pc, started, subscribed>>

\* The platform executes the oldest service call: the entity takes the
\* requested state (an unavailable entity is skipped) and, if that changed
\* anything, a state_changed event carrying the call's context is fired.
ExecuteCall ==
    /\ calls # << >>
    /\ LET call == Head(calls)
           c == [Cur EXCEPT !.calls = Tail(calls)]
           target == CASE call.service = "turn_on" -> STATE_ON
                       [] call.service = "turn_off" -> STATE_OFF
                       [] call.service = "set_percentage" ->
                              IF call.arg > 0 THEN STATE_ON ELSE STATE_OFF
           setpct == IF call.service = "set_percentage"
                     THEN [c EXCEPT !.hass["pct"] = call.arg] ELSE c
           changed == \/ hass["ctl"] # target
                      \/ (call.service = "set_percentage" /\ hass["pct"] # call.arg)
       IN IF hass["ctl"] \in ON_OFF /\ changed
          THEN Commit(WriteState(setpct, "ctl", target, call.ctx, "self"))
          ELSE Commit(c)
    /\ UNCHANGED <<kind, cfg, setup_pc, started, subscribed>>

\* A suspended handler resumes after its service call and assigns the state
\* it decided on before the call.
Resume(i) ==
    /\ i \in 1..Len(tasks)
    /\ LET c == Cur
       IN Commit(set_state([c EXCEPT !.tasks = SubSeq(tasks, 1, i - 1)
                                                \o SubSeq(tasks, i + 1, Len(tasks))],
                           tasks[i]))
    /\ UNCHANGED <<kind, cfg, setup_pc, started, subscribed>>

\* timer_expired: the deadline of a scheduled timer is reached;
\* _timer_unsub is cleared and the expiry is handed to hass.add_job.
TimerFire(h) ==
    /\ SetupDone
    /\ h \in sched
    /\ LET c == Cur
       IN Commit([c EXCEPT !.sched = @ \ {h}, !.timer_unsub = NoTimer,
                           !.jobs = Append(@, "fresh")])
    /\ UNCHANGED <<kind, cfg, setup_pc, started, subscribed>>

\* The event loop runs the oldest expiry job: on_timer_expired (then, in
\* SmartController, _fire_events).
RunTimerJob ==
    /\ jobs # << >>
    /\ LET c == [Cur EXCEPT !.jobs = Tail(jobs),
                                         !.obs.stale = (Head(jobs) = "stale")]
       IN Commit(on_timer_expired(c))
    /\ UNCHANGED <<kind, cfg, setup_pc, started, subscribed>>

\* CeilingFanController._on_poll, every 60 seconds once set up (its
\* unsubscriber is in _unsubscribers, so the teardown stops it).
Poll ==
    /\ kind = "ceiling"
    /\ SetupDone
    /\ ~unloaded
    /\ Commit(Ceiling_process_event(Cur, "update_fan_speed"))
    /\ UNCHANGED <<kind, cfg, setup_pc, started, subscribed>>

Init == InitController /\ peer = NoPeer

Next ==
    \/ SetupEntity
    \/ SetupFinish
    \/ \E e \in TrackedSet : \E v \in Values(e) : StateChanged(e, v)
    \/ ExecuteCall
    \/ \E i \in 1..MaxTasks : Resume(i)
    \/ \E h \in 1..MaxHandles : TimerFire(h)
    \/ RunTimerJob
    \/ Poll

Spec == Init /\ [][Next]_vars

\* ---------------------------------------------------------------- teardown
\* BaseController._unsubscribers is a class attribute, one list for every
\* instance; SmartController creates the list in __init__.
SharedUnsubscribers == ~IsSmart

\* The controller's teardown: SmartController.async_unload, or the
\* remove_listeners callback BaseController.async_setup returns.  Every entry
\* of _unsubscribers is popped and called: the subscription, the timers (and
\* the poll) are canceled; _timer_unsub keeps its value.
Unload ==
    /\ SetupDone
    /\ ~unloaded
    /\ unloaded' = TRUE
    /\ subscribed' = FALSE
    /\ sched' = {}
    /\ peer' = IF SharedUnsubscribers
               THEN [peer EXCEPT !.subscribed = FALSE, !.timer = FALSE]
               ELSE peer
    /\ obs' = Quiet
    /\ UNCHANGED <<kind, cfg, hass, state, cache, timer_unsub, jobs, calls, tasks,
                   setup_pc, started>>
    /\ UNCHANGED <<queue_vars, map_vars>>

\* The second controller calls set_timer(period): its handle is appended to
\* its _unsubscribers.
PeerSetTimer ==
    /\ peer.present /\ peer.subscribed /\ ~peer.timer
    /\ peer' = [peer EXCEPT !.timer = TRUE]
    /\ obs' = Quiet
    /\ UNCHANGED <<kind, cfg, hass, state, cache, timer_unsub, sched, jobs, calls,
                   tasks, setup_pc, started, subscribed, unloaded>>
    /\ UNCHANGED <<queue_vars, map_vars>>

\* The second controller's timer reaches its deadline.
PeerTimerFire ==
    /\ peer.present /\ peer.timer
    /\ peer' = [peer EXCEPT !.timer = FALSE]
    /\ obs' = Quiet
    /\ UNCHANGED <<kind, cfg, hass, state, cache, timer_unsub, sched, jobs, calls,
                   tasks, setup_pc, started, subscribed, unloaded>>
    /\ UNCHANGED <<queue_vars, map_vars>>

InitTeardown ==
    InitController /\ peer = [present |-> TRUE, subscribed |-> TRUE, timer |-> FALSE]

NextTeardown == Next \/ Unload \/ PeerSetTimer \/ PeerTimerFire

SpecTeardown == InitTeardown /\ [][NextTeardown]_vars

\* ------------------------------------------------------------- event queue
\* SmartController keeps a queue of controller events (fire_event,
\* _fire_events, on_event).  The controllers of the package never call
\* fire_event and do not implement on_event, so the queue is exercised here
\* by a SmartController subclass whose on_state_change and on_event may each
\* fire an event; events are numbered in the order they are fired.

\* Variant of fire_event that appends at the far end of the list
\* (sensitivity of C15 to the insertion side).
fire_event_at_end(q, event) == Append(q, event)

\* fire_event: self._queued_events.insert(0, event)
fire_event(q, event) == <<event>> \o q

\* self._queued_events.pop(): the last element of the list
pop_event(q) == q[Len(q)]
pop_rest(q) == SubSeq(q, 1, Len(q) - 1)

\* Variant of the test after on_state_change that drains always
\* (sensitivity of C14 to `if self._started`).
drain_always(is_started) == TRUE

\* _on_state_change: `if self._started: await self._fire_events()`
drain_after_change(is_started) == is_started

Reverse(q) == [i \in 1..Len(q) |-> q[Len(q) + 1 - i]]

controller_idle ==
    UNCHANGED <<kind, cfg, hass, state, cache, timer_unsub, sched, jobs, calls,
                tasks, unloaded, peer, obs, map_vars>>

\* the handler fires the next event, or none; an event records its rank among
\* the fire_event calls and the handler that fired it
NewEvent(f, by) == [n |-> Len(f) + 1, by |-> by]
FiredNext(q, f, fires, by) == IF fires THEN fire_event(q, NewEvent(f, by)) ELSE q
FiredLog(f, fires, by) == IF fires THEN Append(f, NewEvent(f, by)) ELSE f

\* async_setup, one tracked entity: _on_state_change(None, state).
QueueSetupEntity ==
    /\ setup_pc <= NumTracked
    /\ draining = "none"
    /\ \E fires \in BOOLEAN :
          /\ fires => Len(fired) < MaxFired
          /\ queued_events' = FiredNext(queued_events, fired, fires, setup_pc)
          /\ fired' = FiredLog(fired, fires, setup_pc)
    /\ draining' = IF drain_after_change(started) THEN "change" ELSE "none"
    /\ setup_drains' = setup_drains + (IF drain_after_change(started) THEN 1 ELSE 0)
    /\ setup_pc' = setup_pc + 1
    /\ UNCHANGED <<dispatched, started, subscribed>>
    /\ controller_idle

\* async_setup after the loop: `await self._fire_events()`.
QueueSetupDrain ==
    /\ setup_pc = NumTracked + 1
    /\ draining = "none"
    /\ draining' = "setup"
    /\ setup_drains' = setup_drains + 1
    /\ setup_pc' = setup_pc + 1
    /\ UNCHANGED <<queued_events, fired, dispatched, started, subscribed>>
    /\ controller_idle

\* _fire_events, one turn of the loop: pop an event and await on_event, which
\* may fire another event.
QueueDispatch ==
    /\ draining # "none"
    /\ queued_events # << >>
    /\ dispatched' = Append(dispatched, pop_event(queued_events))
    /\ \E fires \in BOOLEAN :
          /\ fires => Len(fired) < MaxFired
          /\ queued_events' = FiredNext(pop_rest(queued_events), fired, fires, "event")
          /\ fired' = FiredLog(fired, fires, "event")
    /\ UNCHANGED <<draining, setup_drains, setup_pc, started, subscribed>>
    /\ controller_idle

\* _fire_events returns; after the call in async_setup the controller is
\* marked started and subscribes.
QueueDrainEnd ==
    /\ draining # "none"
    /\ queued_events = << >>
    /\ draining' = "none"
    /\ started' = (started \/ draining = "setup")
    /\ subscribed' = (subscribed \/ draining = "setup")
    /\ UNCHANGED <<queued_events, fired, dispatched, setup_drains, setup_pc>>
    /\ controller_idle

\* A live notification: on_state_event, _on_state_change.  It may arrive
\* while on_event is suspended inside a running loop; the loops pop from the
\* same list, and draining names the loop entered last.
QueueNotify ==
    /\ subscribed
    /\ draining # "setup"
    /\ \E fires \in BOOLEAN : \E e \in 1..NumTracked :
          /\ fires => Len(fired) < MaxFired
          /\ queued_events' = FiredNext(queued_events, fired, fires, e)
          /\ fired' = FiredLog(fired, fires, e)
    /\ draining' = IF drain_after_change(started) THEN "change" ELSE "none"
    /\ UNCHANGED <<dispatched, setup_drains, setup_pc, started, subscribed>>
    /\ controller_idle

\* dispatch_timer_expiration: on_timer_expired, then _fire_events.  As in the
\* controllers, deadlines are reached after setup.
QueueTimer ==
    /\ started
    /\ draining # "setup"
    /\ \E fires \in BOOLEAN :
          /\ fires => Len(fired) < MaxFired
          /\ queued_events' = FiredNext(queued_events, fired, fires, "timer")
          /\ fired' = FiredLog(fired, fires, "timer")
    /\ draining' = "timer"
    /\ UNCHANGED <<dispatched, setup_drains, setup_pc, started, subscribed>>
    /\ controller_idle

InitQueue ==
    /\ kind = "generic"
    /\ cfg = No(0)
    /\ hass = No(0)
    /\ state = "init"
    /\ cache = No(0)
    /\ timer_unsub = NoTimer
    /\ sched = {}
    /\ jobs = << >>
    /\ calls = << >>
    /\ tasks = << >>
    /\ setup_pc = 1
    /\ started = FALSE
    /\ subscribed = FALSE
    /\ unloaded = FALSE
    /\ peer = NoPeer
    /\ obs = Quiet
    /\ queued_events = << >>
    /\ fired = << >>
    /\ dispatched = << >>
    /\ draining = "none"
    /\ setup_drains = 0
    /\ map_in = << >>
    /\ map_out = << >>

NextQueue ==
    \/ QueueSetupEntity
    \/ QueueSetupDrain
    \/ QueueDispatch
    \/ QueueDrainEnd
    \/ QueueNotify
    \/ QueueTimer

SpecQueue == InitQueue /\ [][NextQueue]_vars

\* ---------------------------------------------------------- range mapping
\* extrapolate_value applied to two values a <= b with the same ranges and
\* defaults.  The configuration flow takes the two ends of a range from
\* independent number fields, so a speed range may be entered with its
\* minimum above its maximum.
SourceRanges == {<<81, 91>>, <<70, 85>>}
TargetRanges == {<<25, 100>>, <<0, 100>>, <<75, 25>>}
LowDefaults == {NoNumber, 0}
HighDefaults == {NoNumber, 0}

\* values below, at, inside and above the source range, in 1/1000000
MapValues(s) ==
    {(s[1] - 1) * 1000000, s[1] * 1000000, s[1] * 1000000 + 500000,
     (s[1] + s[2]) * 500000, s[2] * 1000000, (s[2] + 1) * 1000000}

MapApply ==
    /\ \E s \in SourceRanges, t \in TargetRanges,
          ld \in LowDefaults, hd \in HighDefaults :
          \E a \in MapValues(s), b \in MapValues(s) :
             /\ a <= b
             /\ map_in' = [a |-> a, b |-> b, s_low |-> s[1], s_high |-> s[2],
                           t_low |-> t[1], t_high |-> t[2],
                           low_default |-> ld, high_default |-> hd]
             /\ map_out' = <<extrapolate_value(a, s[1], s[2], t[1], t[2], ld, hd),
                             extrapolate_value(b, s[1], s[2], t[1], t[2], ld, hd)>>
    /\ UNCHANGED <<kind, cfg, hass, state, cache, timer_unsub, sched, jobs, calls,
                   tasks, setup_pc, started, subscribed, unloaded, peer, obs,
                   queue_vars>>

InitMap == InitQueue

NextMap == MapApply

SpecMap == InitMap /\ [][NextMap]_vars

\* ------------------------------------------------------------------ claims
\* C1: a state change caused by the controller's own actuator command never
\* reaches on_state_change, for the ceiling fan, the exhaust fan and the light.
C1_NoSelfEcho == obs.via # "self"

\* C2: transitions are atomic: _process_event is never entered while another
\* handler of the controller is suspended on an actuator command and has not
\* yet assigned the state it decided on.
C2_AtomicTransition == ~obs.overlap

\* C3: once set_timer has been called, no expiry of a timer set earlier is
\* delivered to on_timer_expired, also when that expiry was already handed
\* to the event loop and had not run yet.
C3_NoStaleExpiry == ~obs.stale

\* C4: at most one timer is outstanding, and it is the one _timer_unsub
\* names: set_timer cancels before it schedules, set_timer(None) leaves none,
\* and a timer that fired is no longer outstanding.
C4_OneTimer ==
    /\ Cardinality(sched) <= 1
    /\ \A h \in sched : h = timer_unsub
    /\ NoTimer \notin sched

\* C4 witness: set_timer canceled a scheduled timer and scheduled another.
C4_Replaced == obs.canceled /\ sched = {timer_unsub} /\ timer_unsub # NoTimer

\* C5: exhaust fan, UPDATE_FAN_MODE in ON or OFF with all four readings cached
\* and the difference between the falling and the rising threshold
\* (inclusive): no command is issued and the automaton stays where it was;
\* a turn_off is issued by an update only when the difference is strictly
\* below the falling threshold.
C5_Hysteresis ==
    (/\ kind = "exhaust"
     /\ obs.ev = "update_fan_mode"
     /\ obs.from \in {"on", "off"}
     /\ \A k \in DOMAIN cache : cache[k] \notin {NoNumber, MalformedNumber})
    => LET difference == absolute_humidity(cache["temp"], cache["humidity"])
                         - absolute_humidity(cache["ref_temp"], cache["ref_humidity"])
       IN /\ (difference >= cfg.falling_threshold /\ difference <= cfg.rising_threshold)
              => (obs.cmd = "none" /\ tasks = << >> /\ state = obs.from)
          /\ (obs.cmd = "turn_off") => (difference < cfg.falling_threshold)

\* C6: occupancy, end to end.  MOTION handled in UNOCCUPIED with every door
\* closed (a door sensor reports off when its door is closed) and the required
\* entities satisfied leads to WASP_IN_BOX; DOOR_OPEN handled in WASP_IN_BOX
\* leads to MOTION with a fresh timer when a motion-off period is configured;
\* TIMER handled in MOTION with no auxiliary entity on leads to UNOCCUPIED.
C6_WaspInBoxCycle ==
    (kind = "occupancy") =>
        /\ (/\ obs.ev = "motion"
            /\ obs.from = "unoccupied"
            /\ \A d \in cfg.doors : cache["door_states"][d] = STATE_OFF
            /\ cache["required_states"] = cfg.required)
           => state = "wasp_in_box"
        /\ (obs.ev = "door_open" /\ obs.from = "wasp_in_box")
           => (state = "motion" /\ (cfg.motion_off => timer_unsub \in sched))
        /\ (/\ obs.ev = "timer"
            /\ obs.from = "motion"
            /\ \A o \in cfg.other : cache["other_states"][o] # STATE_ON)
           => state = "unoccupied"

\* C7: light with _occupancy_mode true: TIMER is never processed in ON or
\* ON_MANUAL, so `assert not occupancy_mode()` never fails.
C7_NoTimerInOccupancyMode ==
    (kind = "light" /\ cache["occupancy_mode"] /\ obs.ev = "timer")
    => (obs.from \notin {"on", "on_manual"} /\ ~obs.assert_failed)

\* C8: light, REFRESH handled in ON while the required entities do not all
\* match: the automaton moves to OFF, turn_off is called and no timer is
\* outstanding.
C8_RequiredLostTurnsOff ==
    (/\ kind = "light"
     /\ obs.ev = "refresh"
     /\ obs.from = "on"
     /\ cache["required_states"] # cfg.required)
    => /\ state = "off"
       /\ obs.cmd = "turn_off"
       /\ timer_unsub = NoTimer
       /\ sched = {}

\* C8 witness: a required entity changed to a value that does not match while
\* the light was ON with its auto-off timer running; the light went OFF and
\* the timer was canceled.
C8_TurnedOff ==
    /\ kind = "light"
    /\ obs.via = "ext"
    /\ obs.ev = "refresh"
    /\ obs.from = "on"
    /\ cache["required_states"] # cfg.required
    /\ obs.canceled
    /\ state = "off"
    /\ obs.cmd = "turn_off"

\* C9: light with the single required-on entity r1 and no illuminance sensor:
\* REFRESH handled in OFF calls turn_on and moves to ON exactly when the
\* cached value of r1 is on; otherwise nothing is called and it stays OFF.
C9_RequiredOnTurnsOn ==
    (/\ kind = "light"
     /\ ~cfg.illuminance
     /\ cfg.required = RequireOn("r1")
     /\ obs.ev = "refresh"
     /\ obs.from = "off")
    => IF cache["required_states"]["r1"] = STATE_ON
       THEN state = "on" /\ obs.cmd = "turn_on"
       ELSE state = "off" /\ obs.cmd = "none"

\* C9 witness: r1 changed to on while the light was OFF and the light was
\* turned on.
C9_TurnedOn ==
    /\ kind = "light"
    /\ ~cfg.illuminance
    /\ cfg.required = RequireOn("r1")
    /\ obs.via = "ext"
    /\ obs.ev = "refresh"
    /\ obs.from = "off"
    /\ cache["required_states"]["r1"] = STATE_ON
    /\ state = "on"
    /\ obs.cmd = "turn_on"

\* C10: for every controller type, a notification whose new state equals the
\* old one does not reach on_state_change.
C10_SameStateDropped == ~obs.same

\* C11: a notification that an entity's state became 'unknown' or
\* 'unavailable' changes nothing in the controller: caches, automaton state and timer are as they
\* were, no event is processed and no service is called.
C11_IgnoredChangesNothing ==
    [][\A e \in TrackedSet :
          (/\ hass'[e] # hass[e]
           /\ IF IsNumeric(e) THEN hass'[e] = UnavailableNumber
                              ELSE hass'[e] \in {STATE_UNKNOWN, STATE_UNAVAILABLE})
          => (/\ UNCHANGED <<state, cache, timer_unsub, sched, jobs, calls, tasks>>
              /\ obs' = Quiet)]_vars

\* C11 witness: the exhaust fan's humidity sensor became unavailable after a
\* valid reading was cached, and the cached reading is still there.
C11_ReadingKept ==
    /\ kind = "exhaust"
    /\ SetupDone
    /\ hass["humidity"] = UnavailableNumber
    /\ cache["humidity"] \in HumidityValues
    /\ obs = Quiet

\* C12: controller instances are independent: a step in which this
\* controller sets, cancels or loses a timer, or is torn down, leaves the
\* other controller's subscription and timer as they were.
C12_Independent ==
    [][(<<timer_unsub, sched, unloaded>>' # <<timer_unsub, sched, unloaded>>)
       => (peer' = peer)]_vars

\* C13: after the teardown no timer of the controller is outstanding, it has
\* no subscription, it processes no event and calls no service, also when a
\* timer had fired before the teardown and its expiry had not run yet.
C13_QuietAfterUnload ==
    unloaded => (/\ sched = {}
                 /\ ~subscribed
                 /\ obs.ev = "none"
                 /\ obs.cmd = "none")

\* C14: setup of a SmartController: no queued event is dispatched while the
\* tracked inputs are being processed; the queue is then drained once; the
\* controller is marked started only after that drain and subscribes only
\* when started.
C14_SetupOrder ==
    /\ (setup_pc <= NumTracked + 1) => (dispatched = << >> /\ draining = "none")
    /\ setup_drains <= 1
    /\ started => (setup_drains = 1 /\ setup_pc = NumTracked + 2)
    /\ (draining = "setup") => ~started
    /\ subscribed => started

\* C14 witness: two events fired while the tracked inputs were processed have
\* been dispatched by the drain of async_setup, which is still in progress.
C14_SetupDrained ==
    /\ draining = "setup"
    /\ Len(dispatched) = 2
    /\ ~started

\* C15: on_event receives the events in the order fire_event was called: what
\* has been dispatched followed by what is queued, oldest first, is the
\* sequence of fire_event calls.
C15_QueueFifo == fired = dispatched \o Reverse(queued_events)

\* C15 witness: two events have been dispatched and a third, fired by
\* on_event while the loop was draining, waits in the queue.
C15_FiredWhileDraining ==
    /\ draining = "setup"
    /\ Len(dispatched) = 2
    /\ Len(queued_events) = 1

\* C16: set_state with the current state changes nothing and invokes no
\* listener; with a different state it assigns the state and invokes every
\* registered listener once; the state never changes without that.
C16_SetStateNotifies ==
    [][/\ obs'.notified = obs'.changes * Listeners
       /\ (state' # state) => (obs'.changes >= 1)
       /\ (obs'.changes = 0) => (state' = state)]_vars

\* C16 witness: the occupancy controller changed state once and its listener
\* was invoked once.
C16_ListenerInvoked ==
    /\ kind = "occupancy"
    /\ obs.changes = 1
    /\ obs.notified = 1

FanKinds == {"exhaust", "ceiling"}
ManualStates == {"on_manual", "off_manual"}

\* C17 as stated: a fan controller in ON_MANUAL or OFF_MANUAL issues a command
\* only when handling the expiry of the running override timer.
C17_NoCommandBeforeExpiry ==
    (kind \in FanKinds /\ obs.from \in ManualStates /\ obs.cmd # "none")
        => (obs.ev = "timer" /\ ~obs.stale)

\* C17 amended: a fan controller in ON_MANUAL or OFF_MANUAL issues a command
\* only when handling a timer expiry or the notification that the fan was
\* switched the other way; sensor updates, prerequisite changes and polls
\* issue none.
C17_ManualCommandsOnlyOnTimerOrToggle ==
    (kind \in FanKinds /\ obs.cmd # "none")
        => /\ (obs.from = "on_manual") => (obs.ev \in {"timer", "off"})
           /\ (obs.from = "off_manual") => (obs.ev \in {"timer", "on"})

\* C17 witness: an exhaust fan in ON_MANUAL handled a humidity update that
\* asks for the fan to be off, and issued no command.
C17_UpdateIgnoredInManual ==
    /\ kind = "exhaust"
    /\ obs.from = "on_manual"
    /\ obs.ev = "update_fan_mode"
    /\ obs.cmd = "none"
    /\ state = "on_manual"
    /\ hass["ctl"] = STATE_ON
    /\ \A k \in DOMAIN cache : cache[k] \notin {NoNumber, MalformedNumber}
    /\ ~Exhaust_set_fan_mode(Cur).fan_on

\* Cached readings obtained through state_with_unit.
NumericCached ==
    CASE kind = "exhaust" -> {"temp", "humidity", "ref_temp", "ref_humidity"}
      [] kind = "ceiling" -> {"temp", "humidity"}
      [] OTHER -> {}

\* C18: a non-numeric sensor value affects only the update that delivers it:
\* it never replaces a cached reading, and an exception is raised only by the
\* notification of such a value, never by a later poll or timer expiry.
C18_MalformedConfined ==
    /\ \A k \in NumericCached : cache[k] # MalformedNumber
    /\ obs.raised => /\ obs.via \in {"ext", "setup"}
                     /\ \E e \in TrackedSet : IsNumeric(e) /\ hass[e] = MalformedNumber

Applied == Len(map_out) = 2
InsideSource(v) == map_in.s_low * 1000000 <= v /\ v <= map_in.s_high * 1000000

\* C19: for ranges given with minimum <= maximum, a value equal to the source
\* minimum maps to the target minimum when there is no low default; a value
\* below the source minimum gives the low default, else the target minimum; a
\* value above the source maximum gives the high default, else the target
\* maximum; a result outside the target range is a supplied default.
C19_Boundaries ==
    (Applied /\ map_in.t_low <= map_in.t_high) =>
        LET i == map_in
            out == map_out[1]
            below == i.a < i.s_low * 1000000
            above == i.a > i.s_high * 1000000
        IN /\ (i.a = i.s_low * 1000000 /\ i.low_default = NoNumber)
                 => (out = 100 * i.t_low)
           /\ below => (out = IF i.low_default = NoNumber
                              THEN 100 * i.t_low ELSE 100 * i.low_default)
           /\ above => (out = IF i.high_default = NoNumber
                              THEN 100 * i.t_high ELSE 100 * i.high_default)
           /\ (out < 100 * i.t_low \/ out > 100 * i.t_high)
                 => \/ below /\ i.low_default # NoNumber
                    \/ above /\ i.high_default # NoNumber

\* C20 as stated: for a <= b inside the index range the speed mapped for a is
\* at most the speed mapped for b, whatever the configured ranges.
C20_Monotone ==
    (Applied /\ InsideSource(map_in.a) /\ InsideSource(map_in.b))
        => (map_out[1] <= map_out[2])

\* C20 amended: the same when the speed range has its minimum at or below its
\* maximum.
C20_MonotoneForOrderedSpeedRange ==
    (Applied /\ InsideSource(map_in.a) /\ InsideSource(map_in.b)
             /\ map_in.t_low <= map_in.t_high)
        => (map_out[1] <= map_out[2])

\* C20 witness: two different index values inside the range, mapped to
\* different speeds of an ordered speed range.
C20_StrictlyIncreasing ==
    /\ Applied
    /\ InsideSource(map_in.a)
    /\ InsideSource(map_in.b)
    /\ map_in.a < map_in.b
    /\ map_in.t_low <= map_in.t_high
    /\ map_out[1] < map_out[2]

\* the timer _timer_unsub names is scheduled and is the only one
TimerOutstanding == timer_unsub # NoTimer /\ sched = {timer_unsub}
NoTimerOutstanding == timer_unsub = NoTimer /\ sched = {}

\* C21: a fan controller in OFF that handles an ON report ends in ON_MANUAL
\* with the override timer outstanding when a manual-control period is
\* configured, and in ON with no timer otherwise; in ON, an OFF report ends in
\* OFF_MANUAL with the timer, or in OFF with no timer.
C21_ManualEntry ==
    (kind \in FanKinds /\ <<obs.from, obs.ev>> \in {<<"off", "on">>, <<"on", "off">>})
        => IF cfg.manual_control
           THEN state = obs.ev \o "_manual" /\ TimerOutstanding
           ELSE state = obs.ev /\ NoTimerOutstanding

\* C21 witness: a ceiling fan in OFF handled an ON report and is in ON_MANUAL
\* with its override timer scheduled.
C21_EnteredOnManual ==
    /\ kind = "ceiling"
    /\ obs.from = "off"
    /\ obs.ev = "on"
    /\ state = "on_manual"
    /\ TimerOutstanding

\* the (state, event) pairs that leave a manual state
ManualExit ==
    /\ kind \in FanKinds
    /\ <<obs.from, obs.ev>> \in {<<"off_manual", "on">>, <<"on_manual", "off">>,
                                 <<"off_manual", "timer">>, <<"on_manual", "timer">>}

\* C22: a fan controller that handles ON in OFF_MANUAL, OFF in ON_MANUAL, or
\* TIMER in either, has no timer outstanding afterwards and is in ON or OFF,
\* or is suspended on the command it issued and about to assign ON or OFF.
C22_ManualExitResolves ==
    ManualExit
        => /\ NoTimerOutstanding
           /\ IF obs.cmd = "none"
              THEN state \in {"on", "off"}
              ELSE tasks # << >> /\ tasks[Len(tasks)] \in {"on", "off"}

\* an UPDATE_FAN_SPEED handled in ON or OFF for which a speed was computed
SpeedComputed ==
    /\ kind = "ceiling"
    /\ obs.ev = "update_fan_speed"
    /\ obs.from \in {"on", "off"}
    /\ cache["temp"] \notin {NoNumber, MalformedNumber}
    /\ cache["humidity"] \notin {NoNumber, MalformedNumber}

\* the fan's percentage as _set_fan_speed reads it
CurrSpeed == IF hass["ctl"] = STATE_ON THEN hass["pct"] ELSE 0

\* the state the handler assigns, at once or when it resumes
AssignedState == IF obs.cmd = "none" THEN state ELSE tasks[Len(tasks)]

\* C23: when the ceiling fan computes a speed, set_percentage is issued
\* exactly when the quantized speed differs from the fan's percentage (0 when
\* the fan is off), the value sent is a multiple of the step, and an
\* UPDATE_FAN_SPEED handled in ON or OFF leads to ON exactly when the speed
\* is above 0.
C23_SpeedCommand ==
    SpeedComputed =>
        LET new_speed == Ceiling_new_speed(Cur)
            sent == calls[Len(calls)].arg
        IN /\ (obs.cmd = "set_percentage") <=> (new_speed # CurrSpeed)
           /\ (obs.cmd # "none") => /\ obs.cmd = "set_percentage"
                                    /\ sent = new_speed
                                    /\ sent % PercentageStep = 0
           /\ IF (obs.cmd # "none") /\ ((obs.from = "on") # (new_speed > 0))
              THEN tasks # << >> /\ ((AssignedState = "on") <=> (new_speed > 0))
              ELSE (state = "on") <=> (new_speed > 0)

\* C23 witness: the ceiling fan in OFF computed a speed above 0 while the fan
\* was off, sent it, and is about to enter ON.
C23_SpeedSent ==
    /\ SpeedComputed
    /\ obs.from = "off"
    /\ obs.cmd = "set_percentage"
    /\ calls[Len(calls)].arg > 0
    /\ CurrSpeed = 0
    /\ tasks = <<"on">>

\* C24: with a prerequisite entity configured and cached as 'off', an
\* UPDATE_FAN_SPEED handled in ON or OFF sends no speed other than 0 and
\* leaves the controller in OFF, whatever the cached readings are.
C24_GateForcesOff ==
    (/\ kind = "ceiling"
     /\ cfg.prerequisite
     /\ cache["prereq_state"] = STATE_OFF
     /\ obs.ev = "update_fan_speed"
     /\ obs.from \in {"on", "off"})
        => /\ (obs.cmd # "none") => (calls[Len(calls)].arg = 0)
           /\ IF obs.cmd # "none" /\ obs.from = "on"
              THEN tasks # << >> /\ tasks[Len(tasks)] = "off"
              ELSE state = "off"

ExhaustReadings == {"temp", "humidity", "ref_temp", "ref_humidity"}

\* C25: the exhaust fan controller issues turn_on only when the fan reports
\* off and the humidity difference is above the rising threshold, turn_off
\* only when the fan reports on and the difference is below the falling
\* threshold, and no other command.
C25_CommandOnModeChange ==
    (kind = "exhaust" /\ obs.cmd # "none")
        => /\ \A k \in ExhaustReadings : cache[k] \notin {NoNumber, MalformedNumber}
           /\ LET difference ==
                      absolute_humidity(cache["temp"], cache["humidity"])
                      - absolute_humidity(cache["ref_temp"], cache["ref_humidity"])
              IN CASE obs.cmd = "turn_on" ->
                          hass["ctl"] = STATE_OFF /\ difference > cfg.rising_threshold
                   [] obs.cmd = "turn_off" ->
                          hass["ctl"] = STATE_ON /\ difference < cfg.falling_threshold
                   [] OTHER -> FALSE

\* C25 witness: the fan was on, the difference fell below the falling
\* threshold, and turn_off was issued.
C25_TurnedOffBelowFalling ==
    /\ kind = "exhaust"
    /\ obs.cmd = "turn_off"
    /\ hass["ctl"] = STATE_ON
    /\ cache["humidity"] = 40

\* a reading the decision needs has not been cached yet
ReadingMissing == \E k \in NumericCached : cache[k] = NoNumber

\* C26: while a reading the decision needs is missing, an update event
\* handled by a fan controller in ON or OFF issues no command and leaves the
\* state as it was.
C26_HoldOnMissingReadings ==
    (/\ kind \in FanKinds
     /\ obs.ev \in {"update_fan_mode", "update_fan_speed"}
     /\ obs.from \in {"on", "off"}
     /\ ReadingMissing)
        => (obs.cmd = "none" /\ state = obs.from)

\* C27: a light controller with an auto-off period that handles REFRESH in
\* OFF with low light and the required entities satisfied issues turn_on,
\* is in ON, and has the auto-off timer outstanding.
C27_AutoOnArmsTimer ==
    (/\ kind = "light"
     /\ cfg.auto_off
     /\ obs.from = "off"
     /\ obs.ev = "refresh"
     /\ cache["low_light"] = "True"
     /\ Light_have_required(Cur))
        => (obs.cmd = "turn_on" /\ state = "on" /\ TimerOutstanding)

\* `assert self.illuminance_cutoff` failed in on_state_change
CutoffAssertFailed == obs.assert_failed /\ obs.ev = "none"

C29_TimerDrivenOff ==
    (kind = "light" /\ obs.ev = "timer" /\ ~cache["occupancy_mode"])
        => IF obs.from \in {"on", "on_manual"}
           THEN /\ state = "off"
                /\ obs.cmd = "turn_off"
                /\ calls # << >> /\ calls[Len(calls)].service = "turn_off"
                /\ obs.changes = 1
           ELSE state = obs.from /\ obs.cmd = "none" /\ obs.changes = 0

C29_TimerTurnedOff ==
    /\ kind = "light" /\ obs.ev = "timer" /\ ~cache["occupancy_mode"]
    /\ obs.from = "on_manual"
    /\ state = "off" /\ obs.cmd = "turn_off"

\* every door sensor's cached value is off: the doors are closed
DoorsShut == \A d \in cfg.doors : cache["door_states"][d] = STATE_OFF

\* C30: occupancy: a MOTION event, in whatever state it is handled, ends in
\* WASP_IN_BOX with no timer outstanding when the required entities match
\* and the doors are closed, and otherwise in MOTION with the motion-off
\* timer started anew.
C30_MotionRule ==
    (kind = "occupancy" /\ obs.ev = "motion")
        => IF cache["required_states"] = cfg.required /\ DoorsShut
           THEN state = "wasp_in_box" /\ NoTimerOutstanding
           ELSE state = "motion" /\ (cfg.motion_off => TimerOutstanding)

\* an auxiliary entity's cached value is on
OtherOn == \E o \in cfg.other : cache["other_states"][o] = STATE_ON

\* C31: occupancy: a TIMER event handled in MOTION ends in OTHER when an
\* auxiliary entity's cached value is on and in UNOCCUPIED otherwise, with
\* no timer outstanding; handled in another state it changes neither the
\* state nor the caches nor the timer.
C31_MotionTimeout ==
    [][(kind = "occupancy" /\ obs'.ev = "timer")
           => IF obs'.from = "motion"
              THEN /\ state' = IF OtherOn' THEN "other" ELSE "unoccupied"
                   /\ NoTimerOutstanding'
              ELSE /\ obs'.from = state
                   /\ UNCHANGED <<state, cache, timer_unsub, sched, calls>>]_vars

C31_TimedOutToOther ==
    /\ kind = "occupancy" /\ obs.ev = "timer" /\ obs.from = "motion"
    /\ OtherOn /\ state = "other" /\ NoTimerOutstanding

ON_STATES == {"motion", "wasp_in_box", "other"}

\* a required entity goes from its required value to the opposite one
RequiredLeft ==
    \E r \in DOMAIN cfg.required :
        /\ hass[r] = cfg.required[r]
        /\ hass'[r] \in ON_OFF
        /\ hass'[r] # cfg.required[r]

\* C32: occupancy: in MOTION, WASP_IN_BOX and OTHER the cached values of the
\* required entities equal the configured requirement map, and a required
\* entity leaving its required value ends in UNOCCUPIED with no timer
\* outstanding.
C32_RequiredHeld ==
    /\ []((kind = "occupancy" /\ state \in ON_STATES)
             => cache["required_states"] = cfg.required)
    /\ [][(kind = "occupancy" /\ RequiredLeft)
             => (state' = "unoccupied" /\ NoTimerOutstanding')]_vars

C32_DemotedFromWaspInBox ==
    /\ kind = "occupancy" /\ obs.ev = "update" /\ obs.from = "wasp_in_box"
    /\ cache["required_states"] # cfg.required
    /\ state = "unoccupied" /\ NoTimerOutstanding

\* doors_closed() over the cached door states
DoorsClosedCached == Occupancy_doors_closed(Cur)

\* C33: occupancy: in WASP_IN_BOX doors_closed() holds over the cached door
\* states, and a door-sensor change that makes it false ends in MOTION.
C33_WaspInBoxSealed ==
    /\ []((kind = "occupancy" /\ state = "wasp_in_box") => DoorsClosedCached)
    /\ [][(kind = "occupancy" /\ state = "wasp_in_box"
           /\ DoorsClosedCached /\ ~DoorsClosedCached')
             => state' = "motion"]_vars

\* C34: occupancy: a timer is outstanding only in MOTION, and with a
\* motion-off period configured one is outstanding in MOTION unless it has
\* fired and its expiry is waiting to be handled.
C34_TimerOnlyInMotion ==
    (kind = "occupancy")
        => /\ (timer_unsub # NoTimer \/ sched # {}) => (state = "motion" /\ cfg.motion_off)
           /\ (state = "motion" /\ cfg.motion_off) => (TimerOutstanding \/ jobs # << >>)
           /\ Cardinality(sched) <= 1

C34_TimerRestarted ==
    /\ kind = "occupancy" /\ cfg.motion_off
    /\ obs.ev = "motion" /\ obs.from = "motion" /\ obs.canceled
    /\ state = "motion" /\ TimerOutstanding

\* the last auxiliary entity that was on goes off
LastOtherOff ==
    /\ \E o \in cfg.other : hass[o] = STATE_ON /\ cache["other_states"][o] = STATE_ON
    /\ \A o \in cfg.other : hass'[o] # STATE_ON /\ cache'["other_states"][o] # STATE_ON

\* C35: occupancy: in OTHER some auxiliary entity's cached value is on, and
\* when the last auxiliary entity goes off in OTHER the controller ends in
\* UNOCCUPIED.
C35_OtherJustified ==
    /\ []((kind = "occupancy" /\ state = "other") => OtherOn)
    /\ [][(kind = "occupancy" /\ state = "other" /\ LastOtherOff)
             => state' = "unoccupied"]_vars

C35_LeftOther ==
    /\ kind = "occupancy" /\ obs.ev = "update" /\ obs.from = "other"
    /\ ~OtherOn /\ cache["required_states"] = cfg.required
    /\ state = "unoccupied"

\* C36: light: no timer is outstanding while the automaton is in OFF or in
\* OFF_MANUAL.
C36_NoTimerWhileOff ==
    (kind = "light" /\ state \in {"off", "off_manual"}) => NoTimerOutstanding

\* ------------------------------------------------------------ light, fair
\* The light controller alone, with the steps the platform takes on its own
\* (setup, scheduled timers, expiry jobs, service calls) taken eventually.
\* Nothing obliges an entity to change.
InitLight == Init /\ kind = "light"

InputNotification == \E e \in TrackedSet : \E v \in Values(e) : StateChanged(e, v)

NextLight ==
    \/ SetupEntity
    \/ SetupFinish
    \/ InputNotification
    \/ ExecuteCall
    \/ \E h \in 1..MaxHandles : TimerFire(h)
    \/ RunTimerJob

SpecLight ==
    /\ InitLight
    /\ [][NextLight]_vars
    /\ WF_vars(SetupEntity)
    /\ WF_vars(SetupFinish)
    /\ WF_vars(ExecuteCall)
    /\ WF_vars(\E h \in 1..MaxHandles : TimerFire(h))
    /\ WF_vars(RunTimerJob)

\* the light controller is in ON or ON_MANUAL with an auto-off period and
\* without occupancy mode
LightOnWithAutoOff ==
    /\ kind = "light" /\ cfg.auto_off /\ ~cache["occupancy_mode"]
    /\ state \in {"on", "on_manual"}

\* C37: light with an auto-off period and without occupancy mode: once input
\* notifications have stopped, the controller does not stay in ON or
\* ON_MANUAL.
C37_AutoOffLiveness ==
    (<>[][~InputNotification]_vars) => []<>(~LightOnWithAutoOff)

\* ------------------------------------------------------------- fans, fair
\* The two fan controllers, with the steps the platform takes on its own
\* (setup, scheduled timers, expiry jobs, service calls, suspended handlers)
\* taken eventually.
InitFan == Init /\ kind \in FanKinds

SpecFan ==
    /\ InitFan
    /\ [][Next]_vars
    /\ WF_vars(SetupEntity)
    /\ WF_vars(SetupFinish)
    /\ WF_vars(ExecuteCall)
    /\ WF_vars(\E i \in 1..MaxTasks : Resume(i))
    /\ WF_vars(\E h \in 1..MaxHandles : TimerFire(h))
    /\ WF_vars(RunTimerJob)

\* a timer is scheduled, or has expired and its expiry job is waiting
TimerPending == TimerOutstanding \/ (timer_unsub = NoTimer /\ sched = {} /\ jobs # << >>)

\* no handler is suspended in a service call
NoHandlerSuspended == tasks = << >>

\* C38: fans, between handlers: in ON_MANUAL and OFF_MANUAL a timer is
\* outstanding (or its expiry is about to be handled), a timer is outstanding
\* in no other state, and a manual state is always followed by ON or OFF.
C38_ManualOverrideEnds ==
    /\ []((kind \in FanKinds /\ NoHandlerSuspended /\ state \in ManualStates)
             => TimerPending)
    /\ []((kind \in FanKinds /\ NoHandlerSuspended /\ sched # {})
             => state \in ManualStates)
    /\ (kind \in FanKinds /\ state \in ManualStates) ~> (state \in {"on", "off"})

ActuatorKinds == {"ceiling", "exhaust", "light"}

\* C39: ceiling fan, exhaust fan, light: a step taken in INIT calls no
\* service; INIT is left only by handling the controlled entity's on or off
\* report, to the state of that name; INIT is never entered again.
C39_InitInert ==
    [][(kind \in ActuatorKinds)
           => /\ (state = "init")
                    => /\ obs'.cmd = "none" /\ calls' = << >> /\ tasks' = << >>
                       /\ (state' # "init")
                             => /\ obs'.ev \in {"on", "off"}
                                /\ state' = obs'.ev
                                /\ hass'["ctl"] = state'
              /\ (state # "init") => (state' # "init")]_vars

C39_RefreshIgnoredInInit ==
    /\ kind = "light" /\ state = "init" /\ obs.ev = "refresh" /\ obs.from = "init"
    /\ cache["low_light"] = "True" /\ Light_have_required(Cur)
    /\ obs.cmd = "none" /\ calls = << >>

\* Variant in which the controllers define no handler, as their base classes
\* (sensitivity of C40 to the overrides).
Overridden_in_base(k) == {}

\* The handlers each controller class defines itself; no class defines
\* on_event.
Overridden(k) ==
    CASE k = "ceiling" -> {"on_state_change", "on_timer_expired"}
      [] k = "exhaust" -> {"on_state_change", "on_timer_expired"}
      [] k = "light" -> {"on_state_change", "on_timer_expired"}
      [] k = "occupancy" -> {"on_state_change", "on_timer_expired"}

\* The handlers the last step invoked: on_state_change by _on_state_change,
\* on_timer_expired by the expiry job, on_event by _fire_events for an event
\* in the queue.
Invoked ==
    (IF obs.via # "none" THEN {"on_state_change"} ELSE {})
    \cup (IF obs.ev = "timer" THEN {"on_timer_expired"} ELSE {})
    \cup (IF IsSmart /\ (queued_events # << >> \/ dispatched # << >>)
          THEN {"on_event"} ELSE {})

\* C40: every handler the runtime invokes on one of the four controllers is
\* defined by the controller's class: on_state_change and on_timer_expired
\* are overridden, and on_event is never invoked because nothing is ever in
\* the event queue.
C40_NoUnimplementedHandler ==
    /\ Invoked \subseteq Overridden(kind)
    /\ queued_events = << >>

C40_TimerHandlerInvoked ==
    /\ kind = "light" /\ started
    /\ obs.ev = "timer" /\ obs.from = "on"
    /\ Invoked = {"on_timer_expired"}

====
